---- MODULE Spec2Model ----
(***************************************************************************)
(* Model of gpytorch/utils/pivoted_cholesky.py:                            *)
(*   pivoted_cholesky  - greedy pivoted partial Cholesky factorization of  *)
(*                       a batch of symmetric matrices,                    *)
(*   woodbury_factor / woodbury_solve - solves with diag(shift) + V'V.     *)
(*                                                                         *)
(* Tensor entries are floating-point numbers.  The model keeps the IEEE    *)
(* special values (NaN, +Inf, -Inf) and represents every finite value by   *)
(* an integer; the inputs are restricted to matrices on which every square *)
(* root and every division the algorithm can take is exact, so that the    *)
(* finite arithmetic of the model is the arithmetic of the program.        *)
(***************************************************************************)
EXTENDS Integers, Sequences, FiniteSets, TLC

\* ------------------------------------------------------------------------
\* Bounds of the model
\* ------------------------------------------------------------------------
MaxN == 2          \* largest matrix size n
MaxDiag == 4       \* diagonal entries of the input are drawn from 0..MaxDiag
MaxOff == 2        \* off-diagonal entries are drawn from -1..MaxOff
MaxTol == 1        \* error_tol is drawn from 0..MaxTol
MaxK == 2          \* largest number of rows k of the low-rank matrix V
MaxCols == 3       \* largest number of columns n of V (length of shift and b)
MaxV == 1          \* entries of V are drawn from 0..MaxV
MaxShift == 2      \* entries of shift are drawn from {-1} \cup 1..MaxShift
MaxB == 2          \* entries of b are drawn from 1..MaxB

\* ------------------------------------------------------------------------
\* Floating-point values: <<"f", v>> finite v, <<"nan", 0>>, <<"inf", s>>
\* ------------------------------------------------------------------------
Fin(v) == <<"f", v>>
NaN == <<"nan", 0>>
PInf == <<"inf", 1>>
NInf == <<"inf", -1>>
IsFin(x) == x[1] = "f"
IsNaN(x) == x[1] = "nan"
IsInf(x) == x[1] = "inf"
Sgn(v) == IF v > 0 THEN 1 ELSE IF v < 0 THEN -1 ELSE 0
AbsInt(v) == IF v < 0 THEN -v ELSE v
\* sign of a non-NaN value
FSign(x) == IF IsInf(x) THEN x[2] ELSE Sgn(x[2])

FNeg(x) == IF IsNaN(x) THEN NaN ELSE <<x[1], -x[2]>>

FAdd(x, y) ==
    IF IsNaN(x) \/ IsNaN(y) THEN NaN
    ELSE IF IsInf(x) /\ IsInf(y) THEN (IF x[2] = y[2] THEN x ELSE NaN)
    ELSE IF IsInf(x) THEN x
    ELSE IF IsInf(y) THEN y
    ELSE Fin(x[2] + y[2])

FSub(x, y) == FAdd(x, FNeg(y))

FMul(x, y) ==
    IF IsNaN(x) \/ IsNaN(y) THEN NaN
    ELSE IF IsInf(x) \/ IsInf(y)
         THEN (IF FSign(x) * FSign(y) = 0 THEN NaN ELSE <<"inf", FSign(x) * FSign(y)>>)
    ELSE Fin(x[2] * y[2])

\* Division.  The divisor of the program is always a square root, so a zero
\* divisor is +0.  Finite quotients are exact on the inputs of the model.
FDiv(x, y) ==
    IF IsNaN(x) \/ IsNaN(y) THEN NaN
    ELSE IF IsInf(x) THEN (IF IsInf(y) THEN NaN
                           ELSE <<"inf", x[2] * (IF y[2] < 0 THEN -1 ELSE 1)>>)
    ELSE IF IsInf(y) THEN Fin(0)
    ELSE IF y[2] = 0 THEN (IF x[2] = 0 THEN NaN ELSE <<"inf", Sgn(x[2])>>)
    ELSE Fin(Sgn(x[2]) * Sgn(y[2]) * (AbsInt(x[2]) \div AbsInt(y[2])))

ISqrt(v) == CHOOSE r \in 0..v : r * r <= v /\ v < (r + 1) * (r + 1)

\* Tensor.sqrt(): NaN for a negative argument, no exception
FSqrt(x) ==
    IF IsNaN(x) THEN NaN
    ELSE IF IsInf(x) THEN (IF x[2] > 0 THEN PInf ELSE NaN)
    ELSE IF x[2] < 0 THEN NaN
    ELSE Fin(ISqrt(x[2]))

FAbs(x) == IF IsNaN(x) THEN NaN ELSE <<x[1], AbsInt(x[2])>>

\* x > y, x <= y, x < y: every comparison with NaN is false
FLt(x, y) ==
    /\ ~IsNaN(x) /\ ~IsNaN(y)
    /\ IF IsInf(x) THEN x[2] < 0 /\ y # x
       ELSE IF IsInf(y) THEN y[2] > 0
       ELSE x[2] < y[2]
FLe(x, y) == ~IsNaN(x) /\ ~IsNaN(y) /\ (x = y \/ FLt(x, y))
FGt(x, y) == FLt(y, x)

RECURSIVE FSumTo(_, _)
\* sum of f[0] .. f[cnt-1]
FSumTo(f, cnt) == IF cnt = 0 THEN Fin(0) ELSE FAdd(FSumTo(f, cnt - 1), f[cnt - 1])

RECURSIVE FMaxTo(_, _)
\* torch.max over f[0] .. f[cnt-1] (cnt >= 1): a later value replaces the
\* maximum only if it is greater (the first maximum wins), NaN is propagated
FMaxTo(f, cnt) ==
    IF cnt = 1 THEN f[0]
    ELSE LET r == FMaxTo(f, cnt - 1) IN
         IF IsNaN(r) \/ IsNaN(f[cnt - 1]) THEN NaN
         ELSE IF FGt(f[cnt - 1], r) THEN f[cnt - 1] ELSE r


\* ------------------------------------------------------------------------
\* pivoted_cholesky: operations on one batch element
\* ------------------------------------------------------------------------
Idx(size) == 0..(size - 1)

\* torch.norm(matrix_diag.gather(-1, permutation[..., from:]), 1, dim=-1)
ResidualError(diag, perm, from, size) ==
    FSumTo([j \in Idx(size - from) |-> FAbs(diag[perm[from + j]])], size - from)

\* torch.gather(matrix_diag, -1, permutation[..., mm:])
PermutedDiags(diag, perm, mm, size) == [j \in Idx(size - mm) |-> diag[perm[mm + j]]]

\* faulty variant of the pivot selection: no pivoting, the entry at position m
MaxDiagValue_First(diag, perm, mm, size) == diag[perm[mm]]

\* max_diag_values of torch.max(permuted_diags, -1)
MaxDiagValue(diag, perm, mm, size) == FMaxTo(PermutedDiags(diag, perm, mm, size), size - mm)

\* max_diag_indices + m: the first position of the maximum
MaxDiagIndex(diag, perm, mm, size) ==
    LET pd == PermutedDiags(diag, perm, mm, size)
        mx == MaxDiagValue(diag, perm, mm, size)
        j0 == CHOOSE j \in Idx(size - mm) :
                  pd[j] = mx /\ \A j2 \in Idx(size - mm) : j2 < j => pd[j2] # mx
    IN  j0 + mm

\* faulty variant of the swap: position m is overwritten, the scatter of
\* old_pi_m back to the selected position is forgotten
SwapPermutation_NoScatter(perm, mm, i) == [perm EXCEPT ![mm] = perm[i]]

\* old_pi_m = permutation[m]; permutation[m] = permutation[i]; permutation[i] = old_pi_m
SwapPermutation(perm, mm, i) ==
    LET old_pi_m == perm[mm]
        copied == [perm EXCEPT ![mm] = perm[i]]
    IN  [copied EXCEPT ![i] = old_pi_m]

\* L_m.scatter_(-1, pi_m, max_diag_values.sqrt()) on the view L_m of L[m]
AssignPivot(Lk, mm, pi_m, value) == [Lk EXCEPT ![mm][pi_m] = FSqrt(value)]

\* the numerator of L_m_new at index q: row[q] - sum_t L[t][pi_m] * L[t][q] (if m > 0)
RowNumerator(A, Lk, mm, pi_m, q) ==
    IF mm > 0
    THEN FSub(Fin(A[pi_m][q]),
              FSumTo([t \in Idx(mm) |-> FMul(Lk[t][pi_m], Lk[t][q])], mm))
    ELSE Fin(A[pi_m][q])

\* faulty variant of the new row: the division by L_m[pi_m] is forgotten
NewRowEntry_NoDivide(A, Lk, mm, pi_m, q) == RowNumerator(A, Lk, mm, pi_m, q)

\* faulty variant of the new row: multiplied by L_m[pi_m] instead of divided
NewRowEntry_Multiply(A, Lk, mm, pi_m, q) == FMul(RowNumerator(A, Lk, mm, pi_m, q), Lk[mm][pi_m])

\* one entry of L_m_new: the numerator divided by L_m[pi_m]
NewRowEntry(A, Lk, mm, pi_m, q) == FDiv(RowNumerator(A, Lk, mm, pi_m, q), Lk[mm][pi_m])

\* pi_i = permutation[m + 1:] as a set of indices
UnpivotedSuffix(perm, from, size) == {perm[j] : j \in from..(size - 1)}

\* L_m.scatter_(-1, pi_i, L_m_new)
UpdateRow(A, Lk, perm, mm, size) ==
    [Lk EXCEPT ![mm] =
        [q \in Idx(size) |->
            IF q \in UnpivotedSuffix(perm, mm + 1, size)
            THEN NewRowEntry(A, Lk, mm, perm[mm], q)
            ELSE Lk[mm][q]]]

\* faulty variant of the deflation: the square is added instead of subtracted
Deflate_Add(diag, Lk, perm, mm, size) ==
    [q \in Idx(size) |->
        IF q \in UnpivotedSuffix(perm, mm + 1, size)
        THEN FAdd(diag[q], FMul(Lk[mm][q], Lk[mm][q]))
        ELSE diag[q]]

\* faulty variant of the deflation: the range starts at the pivot position m
Deflate_FromPivot(diag, Lk, perm, mm, size) ==
    [q \in Idx(size) |->
        IF q \in UnpivotedSuffix(perm, mm, size)
        THEN FSub(diag[q], FMul(Lk[mm][q], Lk[mm][q]))
        ELSE diag[q]]

\* matrix_diag.scatter_(-1, pi_i, matrix_diag_current - L_m_new ** 2)
Deflate(diag, Lk, perm, mm, size) ==
    [q \in Idx(size) |->
        IF q \in UnpivotedSuffix(perm, mm + 1, size)
        THEN FSub(diag[q], FMul(Lk[mm][q], Lk[mm][q]))
        ELSE diag[q]]

\* NonLazyTensor(matrix).diag()
DiagOf(A, size) == [i \in Idx(size) |-> Fin(A[i][i])]

\* torch.arange(0, n)
IdentityPermutation(size) == [i \in Idx(size) |-> i]

\* torch.zeros(max_iter, n)
ZeroRows(rows, size) == [t \in Idx(rows) |-> [q \in Idx(size) |-> Fin(0)]]

\* ------------------------------------------------------------------------
\* Inputs: symmetric matrices with small entries on which the arithmetic of
\* the complete factorization (all n pivots) is exact
\* ------------------------------------------------------------------------
SizeOf(A) == Cardinality(DOMAIN A)

SymMatrices(size) ==
    LET Pairs == {p \in Idx(size) \X Idx(size) : p[1] < p[2]} IN
    { [i \in Idx(size) |-> [j \in Idx(size) |->
          IF i = j THEN dg[i] ELSE IF i < j THEN off[<<i, j>>] ELSE off[<<j, i>>]]] :
      dg \in [Idx(size) -> 0..MaxDiag], off \in [Pairs -> (-1)..MaxOff] }

IsSquare(v) == ISqrt(v) * ISqrt(v) = v

SqrtExact(x) == (IsFin(x) /\ x[2] >= 0) => IsSquare(x[2])
DivExact(x, y) == (IsFin(x) /\ IsFin(y) /\ y[2] # 0) => x[2] % AbsInt(y[2]) = 0

RECURSIVE ExactFrom(_, _, _, _, _)
ExactFrom(A, diag, perm, Lk, mm) ==
    LET size == SizeOf(A) IN
    IF mm >= size THEN TRUE
    ELSE LET i == MaxDiagIndex(diag, perm, mm, size)
             value == MaxDiagValue(diag, perm, mm, size)
             perm2 == SwapPermutation(perm, mm, i)
         IN  /\ SqrtExact(value)
             /\ LET L1 == AssignPivot(Lk, mm, perm2[mm], value) IN
                /\ \A q \in UnpivotedSuffix(perm2, mm + 1, size) :
                       DivExact(RowNumerator(A, L1, mm, perm2[mm], q), L1[mm][perm2[mm]])
                /\ LET L2 == UpdateRow(A, L1, perm2, mm, size)
                       diag2 == Deflate(diag, L2, perm2, mm, size)
                   IN  ExactFrom(A, diag2, perm2, L2, mm + 1)

ExactlyFactorizable(A) ==
    ExactFrom(A, DiagOf(A, SizeOf(A)), IdentityPermutation(SizeOf(A)),
              ZeroRows(SizeOf(A), SizeOf(A)), 0)

Matrices == UNION { {A \in SymMatrices(size) : ExactlyFactorizable(A)} : size \in 1..MaxN }

\* the second element of a batch of two: a multiple of the identity
Companions(size) == {A \in Matrices : SizeOf(A) = size /\
                        \A i, j \in Idx(size) : A[i][j] = IF i = j THEN A[0][0] ELSE 0}

Batches == { <<A>> : A \in Matrices } \cup
           UNION { { <<A, C>> : C \in Companions(SizeOf(A)) } : A \in Matrices }

\* ------------------------------------------------------------------------
\* pivoted_cholesky as a state machine
\* ------------------------------------------------------------------------
VARIABLES
    matrix,           \* the batch of input matrices (a sequence of 1 or 2)
    max_iter_arg,     \* max_iter as passed by the caller
    max_iter,         \* max_iter after min(max_iter, n)
    error_tol,
    matrix_diag,      \* per batch element, the (deflated) diagonal
    errors,           \* per batch element, the residual L1 norm
    permutation,      \* per batch element
    L,                \* per batch element, max_iter rows of n entries
    m,                \* the iteration counter
    max_diag_values,  \* per batch element, the values selected so far (the last one is
                      \* the max_diag_values of the current iteration)
    pc,               \* "loop" | "row" | "update" | "done"
    result,           \* the returned L[..., :m, :], once pc = "done"
    \* woodbury_factor / woodbury_solve
    low_rank_mat,     \* V, k rows of n entries
    shift,            \* n non-zero entries
    vector,           \* the right-hand side b, n entries
    woodbury_factor,  \* the value returned by woodbury_factor, passed to woodbury_solve
    res,              \* the value returned by woodbury_solve
    wpc               \* "idle" | "start" | "factored" | "failed" | "solved"

cholesky_vars == <<matrix, max_iter_arg, max_iter, error_tol, matrix_diag, errors,
                   permutation, L, m, max_diag_values, pc, result>>
woodbury_vars == <<low_rank_mat, shift, vector, woodbury_factor, res, wpc>>
vars == <<cholesky_vars, woodbury_vars>>

n == SizeOf(matrix[1])
Batch == DOMAIN matrix

Min(a, b) == IF a < b THEN a ELSE b

\* torch.max(errors)
MaxError(errs) == FMaxTo([j \in Idx(Len(errs)) |-> errs[j + 1]], Len(errs))

\* faulty variant of the loop test: the counter bound is off by one
LoopCondition_OffByOne(mm, maxit, errs, tol) == mm + 1 < maxit /\ FGt(MaxError(errs), tol)

\* while m < max_iter and torch.max(errors) > error_tol
LoopCondition(mm, maxit, errs, tol) == mm < maxit /\ FGt(MaxError(errs), tol)

Init ==
    /\ matrix \in Batches
    /\ max_iter_arg \in 1..(n + 1)
    /\ max_iter = Min(max_iter_arg, n)
    /\ error_tol \in {Fin(t) : t \in 0..MaxTol}
    /\ matrix_diag = [k \in Batch |-> DiagOf(matrix[k], n)]
    /\ errors = [k \in Batch |-> ResidualError(matrix_diag[k], IdentityPermutation(n), 0, n)]
    /\ permutation = [k \in Batch |-> IdentityPermutation(n)]
    /\ L = [k \in Batch |-> ZeroRows(max_iter, n)]
    /\ m = 0
    /\ max_diag_values = [k \in Batch |-> << >>]
    /\ pc = "loop"
    /\ result = << >>
    /\ low_rank_mat = << >> /\ shift = << >> /\ vector = << >>
    /\ woodbury_factor = << >> /\ res = << >> /\ wpc = "idle"

\* lines 42-53: the loop test, the pivot selection and the swap
PivotSwap ==
    /\ pc = "loop"
    /\ LoopCondition(m, max_iter, errors, error_tol)
    /\ max_diag_values' = [k \in Batch |->
           Append(max_diag_values[k], MaxDiagValue(matrix_diag[k], permutation[k], m, n))]
    /\ permutation' = [k \in Batch |->
           SwapPermutation(permutation[k], m,
                           MaxDiagIndex(matrix_diag[k], permutation[k], m, n))]
    /\ pc' = "row"
    /\ UNCHANGED <<woodbury_vars, matrix, max_iter_arg, max_iter, error_tol, matrix_diag, errors,
                   L, m, result>>

\* lines 55-56: the square root of the selected value goes to L[m][pi_m]
RowAssign ==
    /\ pc = "row"
    /\ L' = [k \in Batch |->
           AssignPivot(L[k], m, permutation[k][m], max_diag_values[k][m + 1])]
    /\ pc' = "update"
    /\ UNCHANGED <<woodbury_vars, matrix, max_iter_arg, max_iter, error_tol, matrix_diag, errors,
                   permutation, m, max_diag_values, result>>

\* faulty variant of Update: the error is the norm of the diagonal gathered
\* before the deflation
Update_ErrorBeforeDeflation ==
    /\ pc = "update"
    /\ m + 1 < n
    /\ L' = [k \in Batch |-> UpdateRow(matrix[k], L[k], permutation[k], m, n)]
    /\ matrix_diag' = [k \in Batch |-> Deflate(matrix_diag[k], L'[k], permutation[k], m, n)]
    /\ errors' = [k \in Batch |-> ResidualError(matrix_diag[k], permutation[k], m + 1, n)]
    /\ m' = m + 1
    /\ pc' = "loop"
    /\ UNCHANGED <<woodbury_vars, matrix, max_iter_arg, max_iter, error_tol, permutation,
                   max_diag_values, result>>

\* lines 58-80 when m + 1 < n: the new row, the deflation, the error, m = m + 1
Update ==
    /\ pc = "update"
    /\ m + 1 < n
    /\ L' = [k \in Batch |-> UpdateRow(matrix[k], L[k], permutation[k], m, n)]
    /\ matrix_diag' = [k \in Batch |-> Deflate(matrix_diag[k], L'[k], permutation[k], m, n)]
    /\ errors' = [k \in Batch |-> ResidualError(matrix_diag'[k], permutation[k], m + 1, n)]
    /\ m' = m + 1
    /\ pc' = "loop"
    /\ UNCHANGED <<woodbury_vars, matrix, max_iter_arg, max_iter, error_tol, permutation,
                   max_diag_values, result>>

\* lines 63, 80 when m + 1 >= n: nothing but m = m + 1
LastPivot ==
    /\ pc = "update"
    /\ ~(m + 1 < n)
    /\ m' = m + 1
    /\ pc' = "loop"
    /\ UNCHANGED <<woodbury_vars, matrix, max_iter_arg, max_iter, error_tol, matrix_diag, errors,
                   permutation, L, max_diag_values, result>>

\* line 82: return L[..., :m, :]
Return ==
    /\ pc = "loop"
    /\ ~LoopCondition(m, max_iter, errors, error_tol)
    /\ result' = [k \in Batch |-> [t \in Idx(m) |-> L[k][t]]]
    /\ pc' = "done"
    /\ UNCHANGED <<woodbury_vars, matrix, max_iter_arg, max_iter, error_tol, matrix_diag, errors,
                   permutation, L, m, max_diag_values>>

Next == PivotSwap \/ RowAssign \/ Update \/ LastPivot \/ Return

Spec == Init /\ [][Next]_vars

\* ------------------------------------------------------------------------
\* Positive semi-definiteness of an integer symmetric matrix: every
\* principal minor is >= 0
\* ------------------------------------------------------------------------
SetMin(S) == CHOOSE x \in S : \A y \in S : x <= y

RECURSIVE Det(_, _, _)
RECURSIVE DetRow(_, _, _, _)
\* determinant of the submatrix of A with rows R and columns C (same size)
Det(A, R, C) == IF R = {} THEN 1 ELSE DetRow(A, R, C, C)
\* Laplace expansion along the first row of R, over the columns in Todo
DetRow(A, R, C, Todo) ==
    IF Todo = {} THEN 0
    ELSE LET c == SetMin(Todo)
             r == SetMin(R)
             sign == IF Cardinality({x \in C : x < c}) % 2 = 0 THEN 1 ELSE -1
         IN  sign * A[r][c] * Det(A, R \ {r}, C \ {c}) + DetRow(A, R, C, Todo \ {c})

IsPSD(A) == \A S \in SUBSET DOMAIN A : Det(A, S, S) >= 0

PSDMatrices == {A \in Matrices : IsPSD(A)}

\* ------------------------------------------------------------------------
\* pivoted_cholesky on one matrix alone, from the same operations
\* ------------------------------------------------------------------------
RECURSIVE AloneFrom(_, _, _, _, _, _, _, _)
AloneFrom(A, maxit, tol, diag, perm, Lk, err, mm) ==
    LET size == SizeOf(A) IN
    IF ~LoopCondition(mm, maxit, <<err>>, tol) THEN [t \in Idx(mm) |-> Lk[t]]
    ELSE LET value == MaxDiagValue(diag, perm, mm, size)
             perm2 == SwapPermutation(perm, mm, MaxDiagIndex(diag, perm, mm, size))
             L1 == AssignPivot(Lk, mm, perm2[mm], value)
         IN  IF mm + 1 < size
             THEN LET L2 == UpdateRow(A, L1, perm2, mm, size)
                      diag2 == Deflate(diag, L2, perm2, mm, size)
                  IN  AloneFrom(A, maxit, tol, diag2, perm2, L2,
                                ResidualError(diag2, perm2, mm + 1, size), mm + 1)
             ELSE AloneFrom(A, maxit, tol, diag, perm2, L1, err, mm + 1)

FactorizeAlone(A, maxit_arg, tol) ==
    LET size == SizeOf(A)
        maxit == Min(maxit_arg, size)
        diag == DiagOf(A, size)
    IN  AloneFrom(A, maxit, tol, diag, IdentityPermutation(size), ZeroRows(maxit, size),
                  ResidualError(diag, IdentityPermutation(size), 0, size), 0)

\* ------------------------------------------------------------------------
\* Properties of pivoted_cholesky
\* ------------------------------------------------------------------------
Rows(factor) == Cardinality(DOMAIN factor)

\* the value selected by the latest pivot selection of batch element k
CurrentPivotValue(k) == max_diag_values[k][Len(max_diag_values[k])]

PermutationIsBijection ==
    \A k \in Batch :
        /\ DOMAIN permutation[k] = Idx(n)
        /\ \A q \in Idx(n) : Cardinality({i \in Idx(n) : permutation[k][i] = q}) = 1

SwapIsTransposition ==
    (pc = "loop" /\ pc' = "row") =>
        \A k \in Batch :
            LET i == MaxDiagIndex(matrix_diag[k], permutation[k], m, n) IN
            /\ i \in m..(n - 1)
            /\ permutation'[k][m] = permutation[k][i]
            /\ permutation'[k][i] = permutation[k][m]
            /\ \A j \in Idx(n) \ {m, i} : permutation'[k][j] = permutation[k][j]

\* C1: in every state each batch element's permutation is a bijection on
\* [0,n), and the swap of iteration m exchanges exactly the entries at
\* position m and at the selected maximum position (possibly m itself).
C1_PermutationBijection == []PermutationIsBijection /\ [][SwapIsTransposition]_vars

\* a swap that moved something: the selected position was not m
C1_Witness == pc = "row" /\ m = 0 /\ \E k \in Batch : permutation[k][0] # 0

\* entry (i, k) of L'L for the returned rows
GramEntry(factor, i, k) ==
    FSumTo([j \in Idx(Rows(factor)) |-> FMul(factor[j][i], factor[j][k])], Rows(factor))

FullRankCall ==
    /\ pc = "done"
    /\ Len(matrix) = 1
    /\ matrix[1] \in PSDMatrices
    /\ max_iter_arg = n
    /\ error_tol = Fin(0)

\* C2: for a symmetric PSD matrix A factorized alone with max_iter = n and
\* error_tol = 0, the returned L satisfies (L'L)[i][k] = A[i][k] for all i, k.
C2_FullRankRecovery ==
    FullRankCall =>
        \A i, k \in Idx(n) : GramEntry(result[1], i, k) = Fin(matrix[1][i][k])

\* a full-rank 2 x 2 recovery with a non-zero off-diagonal entry and a real swap
C2_Witness ==
    /\ FullRankCall
    /\ n = 2
    /\ Rows(result[1]) = 2
    /\ matrix[1][0][1] # 0
    /\ permutation[1][0] = 1

\* C4: the factor returned for batch element k by the batched call equals the
\* factor of running factorize on matrix k alone with the same max_iter and
\* error_tol (same number of rows, same entries).
C4_BatchInvariance ==
    pc = "done" =>
        \A k \in Batch : result[k] = FactorizeAlone(matrix[k], max_iter_arg, error_tol)

C7_PivotsNonIncreasing ==
    \A k \in Batch :
        /\ \A t \in 2..Len(max_diag_values[k]) :
               FLe(max_diag_values[k][t], max_diag_values[k][t - 1])
        /\ pc = "row" =>
               \A j \in m..(n - 1) :
                   FLe(matrix_diag[k][permutation[k][j]], CurrentPivotValue(k))

\* two pivots selected, the second strictly smaller than the first
C7_Witness ==
    /\ pc = "row"
    /\ Len(max_diag_values[1]) = 2
    /\ FLt(max_diag_values[1][2], max_diag_values[1][1])

\* C8: after a negative diagonal value has been selected, factorize never
\* returns a factor (it ends in a numerical-instability error instead).
C8_NegativePivotRaises ==
    pc = "done" =>
        \A k \in Batch : \A t \in 1..Len(max_diag_values[k]) :
            ~FLt(max_diag_values[k][t], Fin(0))

\* the indices already assigned as pivots: permutation positions [0, m), and
\* position m too once the swap of iteration m is done
PivotedPositions == IF pc \in {"row", "update"} THEN 0..m ELSE 0..(m - 1)

PivotsUntouched ==
    \A k \in Batch : \A j \in PivotedPositions :
        /\ j < n => permutation'[k][j] = permutation[k][j]
        /\ j < n => matrix_diag'[k][permutation[k][j]] = matrix_diag[k][permutation[k][j]]

\* C9: a step changes the Diagonal only at the indices held in permutation
\* positions [m+1, n); the Diagonal entry of every index already chosen as
\* pivot, the pivot of the current iteration included, never changes again.
C9_PivotDiagonalFrozen == [][PivotsUntouched]_vars

\* after a deflation that changed the diagonal of an unpivoted index
C9_Witness ==
    /\ pc = "loop"
    /\ m = 1
    /\ matrix_diag[1] # DiagOf(matrix[1], n)
    /\ matrix_diag[1][permutation[1][0]] = Fin(matrix[1][permutation[1][0]][permutation[1][0]])

\* C10 as stated: at the end of every iteration, with counter now m,
\* ErrorVector is the L1 norm of the Diagonal over permutation positions
\* [m, n), and 0 when m = n.
C10_Original ==
    (pc = "loop" /\ m >= 1) =>
        \A k \in Batch : errors[k] = ResidualError(matrix_diag[k], permutation[k], m, n)

\* C10 amended: at the end of every iteration that leaves m < n, ErrorVector
\* is the L1 norm of the Diagonal over permutation positions [m, n); the
\* iteration that pivots the last remaining index (m = n) leaves ErrorVector
\* as it was, the absolute Diagonal value of that last index.
C10_ErrorIsResidualNorm ==
    (pc = "loop" /\ m >= 1) =>
        \A k \in Batch :
            errors[k] = ResidualError(matrix_diag[k], permutation[k], Min(m, n - 1), n)

\* after an iteration that deflated: the error is a norm over a changed suffix
C10_Witness ==
    /\ pc = "loop"
    /\ m = 1
    /\ n = 2
    /\ matrix_diag[1] # DiagOf(matrix[1], n)
    /\ FGt(errors[1], Fin(0))

\* ------------------------------------------------------------------------
\* woodbury_factor and woodbury_solve, in exact rational arithmetic.
\* A rational is <<p, q>> with q > 0 and gcd(p, q) = 1.  shift has no zero
\* entry, so no reciprocal is infinite.
\* ------------------------------------------------------------------------
RECURSIVE GCD(_, _)
GCD(a, b) == IF b = 0 THEN a ELSE GCD(b, a % b)

RNorm(p, q) ==
    LET g == GCD(AbsInt(p), AbsInt(q))
        sg == IF q < 0 THEN -1 ELSE 1
    IN  <<sg * (p \div g), sg * (q \div g)>>

Rat(v) == <<v, 1>>
RAdd(x, y) == RNorm(x[1] * y[2] + y[1] * x[2], x[2] * y[2])
RSub(x, y) == RNorm(x[1] * y[2] - y[1] * x[2], x[2] * y[2])
RMul(x, y) == RNorm(x[1] * y[1], x[2] * y[2])
RDiv(x, y) == RNorm(x[1] * y[2], x[2] * y[1])
RAbs(x) == <<AbsInt(x[1]), x[2]>>
RLt(x, y) == x[1] * y[2] < y[1] * x[2]

RECURSIVE RSumTo(_, _)
RSumTo(f, cnt) == IF cnt = 0 THEN Rat(0) ELSE RAdd(RSumTo(f, cnt - 1), f[cnt - 1])

RECURSIVE RMaxTo(_, _)
RMaxTo(f, cnt) ==
    IF cnt = 1 THEN f[0]
    ELSE LET r == RMaxTo(f, cnt - 1) IN IF RLt(r, f[cnt - 1]) THEN f[cnt - 1] ELSE r

RECURSIVE RDet(_, _, _)
RECURSIVE RDetRow(_, _, _, _)
\* determinant of the submatrix of M with rows Rs and columns Cs
RDet(M, Rs, Cs) == IF Rs = {} THEN Rat(1) ELSE RDetRow(M, Rs, Cs, Cs)
RDetRow(M, Rs, Cs, Todo) ==
    IF Todo = {} THEN Rat(0)
    ELSE LET c == SetMin(Todo)
             r == SetMin(Rs)
             sign == IF Cardinality({x \in Cs : x < c}) % 2 = 0 THEN Rat(1) ELSE Rat(-1)
         IN  RAdd(RMul(sign, RMul(M[r][c], RDet(M, Rs \ {r}, Cs \ {c}))),
                  RDetRow(M, Rs, Cs, Todo \ {c}))

\* scale = shift.reciprocal().abs().max()
ScaleOf(sh) ==
    RMaxTo([i \in DOMAIN sh |-> RAbs(RDiv(Rat(1), sh[i]))], SizeOf(sh))

\* inv_shift = shift.reciprocal().div(scale)
ScaledInvShift(sh) ==
    LET scale == ScaleOf(sh) IN [i \in DOMAIN sh |-> RDiv(RDiv(Rat(1), sh[i]), scale)]

\* shifted_mat = V @ (inv_shift * V') + eye(k) / scale
ShiftedMat(V, sh) ==
    LET inv == ScaledInvShift(sh)
        eye_div_scale == RDiv(Rat(1), ScaleOf(sh))
    IN  [a \in DOMAIN V |-> [b \in DOMAIN V |->
            RAdd(RSumTo([i \in DOMAIN sh |-> RMul(V[a][i], RMul(inv[i], V[b][i]))], SizeOf(sh)),
                 IF a = b THEN eye_div_scale ELSE Rat(0))]]

\* torch.cholesky(shifted_mat) succeeds exactly on a positive definite matrix:
\* every leading principal minor is > 0
CholeskySucceeds(M) ==
    \A j \in 1..SizeOf(M) : RLt(Rat(0), RDet(M, Idx(j), Idx(j)))

ReplaceColumn(M, a, col) ==
    [r \in DOMAIN M |-> [c \in DOMAIN M |-> IF c = a THEN col[r] ELSE M[r][c]]]

\* torch.potrs(V, chol): the solution X of M X = V (Cramer's rule, column by column)
PotrsSolve(M, V, cols) ==
    LET det == RDet(M, DOMAIN M, DOMAIN M) IN
    [a \in DOMAIN M |-> [j \in Idx(cols) |->
        RDiv(RDet(ReplaceColumn(M, a, [r \in DOMAIN M |-> V[r][j]]), DOMAIN M, DOMAIN M),
             det)]]

\* the value woodbury_factor returns when the Cholesky factorization succeeds
WoodburyFactorResult(V, sh) ==
    LET shifted_mat == ShiftedMat(V, sh) IN PotrsSolve(shifted_mat, V, SizeOf(sh))

\* matrix @ vec
MatVec(M, vec) ==
    [i \in DOMAIN M |-> RSumTo([j \in DOMAIN vec |-> RMul(M[i][j], vec[j])], SizeOf(vec))]

\* faulty variant of woodbury_solve: the final res.mul(scale) is forgotten
WoodburySolveResult_NoRescale(b, V, Rf, sh) ==
    LET inv == ScaledInvShift(sh)
        shifted_vector == [i \in DOMAIN sh |-> RMul(inv[i], b[i])]
        VtR == [i \in DOMAIN sh |-> [j \in DOMAIN sh |->
                   RSumTo([a \in DOMAIN V |-> RMul(V[a][i], Rf[a][j])], SizeOf(V))]]
        prod == MatVec(VtR, shifted_vector)
        diff == [i \in DOMAIN sh |-> RMul(inv[i], prod[i])]
    IN  [i \in DOMAIN sh |-> RSub(shifted_vector[i], diff[i])]

\* the value woodbury_solve returns
WoodburySolveResult(b, V, Rf, sh) ==
    LET inv == ScaledInvShift(sh)
        shifted_vector == [i \in DOMAIN sh |-> RMul(inv[i], b[i])]
        VtR == [i \in DOMAIN sh |-> [j \in DOMAIN sh |->
                   RSumTo([a \in DOMAIN V |-> RMul(V[a][i], Rf[a][j])], SizeOf(V))]]
        prod == MatVec(VtR, shifted_vector)
        diff == [i \in DOMAIN sh |-> RMul(inv[i], prod[i])]
        scale == ScaleOf(sh)
    IN  [i \in DOMAIN sh |-> RMul(RSub(shifted_vector[i], diff[i]), scale)]

WoodburyInit ==
    /\ \E k \in 1..MaxK, cols \in 1..MaxCols :
          /\ low_rank_mat \in [Idx(k) -> [Idx(cols) -> {Rat(v) : v \in 0..MaxV}]]
          /\ shift \in [Idx(cols) -> {Rat(v) : v \in ((-1)..MaxShift) \ {0}}]
    /\ vector = << >>
    /\ woodbury_factor = << >>
    /\ res = << >>
    /\ wpc = "start"
    /\ matrix = << >> /\ max_iter_arg = 0 /\ max_iter = 0 /\ error_tol = Fin(0)
    /\ matrix_diag = << >> /\ errors = << >> /\ permutation = << >> /\ L = << >>
    /\ m = 0 /\ max_diag_values = << >> /\ pc = "idle" /\ result = << >>

\* woodbury_factor(low_rank_mat, shift) returns R
WoodburyFactor ==
    /\ wpc = "start"
    /\ CholeskySucceeds(ShiftedMat(low_rank_mat, shift))
    /\ woodbury_factor' = WoodburyFactorResult(low_rank_mat, shift)
    /\ wpc' = "factored"
    /\ UNCHANGED <<cholesky_vars, low_rank_mat, shift, vector, res>>

\* torch.cholesky raises: shifted_mat is not positive definite
CholeskyFails ==
    /\ wpc = "start"
    /\ ~CholeskySucceeds(ShiftedMat(low_rank_mat, shift))
    /\ wpc' = "failed"
    /\ UNCHANGED <<cholesky_vars, low_rank_mat, shift, vector, woodbury_factor, res>>

\* woodbury_solve(vector, low_rank_mat, woodbury_factor, shift) returns res;
\* the factor is computed once and serves every right-hand side
WoodburySolve ==
    /\ wpc = "factored"
    /\ \E b \in [DOMAIN shift -> {Rat(v) : v \in 1..MaxB}] :
          /\ vector' = b
          /\ res' = WoodburySolveResult(b, low_rank_mat, woodbury_factor, shift)
    /\ wpc' = "solved"
    /\ UNCHANGED <<cholesky_vars, low_rank_mat, shift, woodbury_factor>>

WoodburyNext == WoodburyFactor \/ CholeskyFails \/ WoodburySolve

WoodburySpec == WoodburyInit /\ [][WoodburyNext]_vars

\* ------------------------------------------------------------------------
\* Properties of the Woodbury solve
\* ------------------------------------------------------------------------
\* entry i of (diag(shift) + V'V) x
DenseApply(V, sh, x, i) ==
    RAdd(RMul(sh[i], x[i]),
         RSumTo([j \in DOMAIN sh |->
                    RMul(RSumTo([a \in DOMAIN V |-> RMul(V[a][i], V[a][j])], SizeOf(V)), x[j])],
                SizeOf(sh)))

ClaimInstance ==
    /\ low_rank_mat = (0 :> (0 :> Rat(1) @@ 1 :> Rat(0) @@ 2 :> Rat(0)) @@
                       1 :> (0 :> Rat(0) @@ 1 :> Rat(1) @@ 2 :> Rat(0)))
    /\ shift = (0 :> Rat(1) @@ 1 :> Rat(1) @@ 2 :> Rat(1))
    /\ vector = (0 :> Rat(2) @@ 1 :> Rat(2) @@ 2 :> Rat(1))

\* C3: with R = woodbury_factor(V, shift), woodbury_solve(b, V, R, shift)
\* returns the x with (diag(shift) + V'V) x = b; for V = [[1,0,0],[0,1,0]],
\* shift = [1,1,1], b = [2,2,1] it returns [1,1,1].
C3_SolveMatchesDense ==
    wpc = "solved" =>
        /\ \A i \in DOMAIN shift : DenseApply(low_rank_mat, shift, res, i) = vector[i]
        /\ ClaimInstance => res = (0 :> Rat(1) @@ 1 :> Rat(1) @@ 2 :> Rat(1))

\* a solve with two rows, a negative and a non-unit shift entry, and V'V not diagonal
C3_Witness ==
    /\ wpc = "solved"
    /\ SizeOf(low_rank_mat) = 2
    /\ SizeOf(shift) = 3
    /\ shift[0] = Rat(-1) /\ shift[1] = Rat(2)
    /\ low_rank_mat[0][0] = Rat(1) /\ low_rank_mat[0][1] = Rat(1)
    /\ low_rank_mat[1][1] = Rat(1)

\* the solve of the instance named in the claim
C3_InstanceSolved == wpc = "solved" /\ ClaimInstance

====
